---- MODULE Spec2Model ----
(***************************************************************************)
(* State-machine model of the Flask blog in src/main.py and src/forms.py.  *)
(* The state is the three tables of blog.db (users, blog_posts, comments), *)
(* the flask-login session of every browser, and the response of the last  *)
(* request.  Every route handler is one action.                            *)
(***************************************************************************)
EXTENDS Integers, Sequences, FiniteSets, TLC

\* ------------------------------------------------------------------ bounds
MaxUsers == 2
MaxPosts == 2
MaxComments == 1

\* --------------------------------------------------------------- constants
ADMIN_ID == 1
\* no user id in the session (AnonymousUserMixin); SQL NULL in an integer column
Anonymous == 0
NULL == 0

Clients == {"c1", "c2"}
\* the browsers that send requests one after the other
Browsers == {"c1"}
Salts == {"s1"}
Days == {"April 05, 2025", "April 06, 2025"}

\* ------------------------------------------------------------------- state
VARIABLES users, posts, comments, session, inflight, resp

vars == <<users, posts, comments, session, inflight, resp>>

\* ------------------------------------------------------------------- forms
DataRequired(x) == x # ""
Email(x) == x \in {"a@x.com", "b@x.com", "c@x.com"}
URL(x) == x \in {"http://x.com/1.png", "http://x.com/2.png"}

RegisterForm ==
    {[name |-> "Alice", email |-> "a@x.com", password |-> "pw1"],
     [name |-> "Bob", email |-> "b@x.com", password |-> "pw2"],
     [name |-> "", email |-> "b@x.com", password |-> "pw1"],
     [name |-> "Dave", email |-> "not-an-email", password |-> "pw1"]}

LoginForm ==
    [email : {"a@x.com", "b@x.com", "c@x.com"}, password : {"pw1", "pw2"}]
      \cup {[email |-> "a@x.com", password |-> ""]}

CommentForm == [comment : {"nice", ""}]

CreatePostForm ==
    {[title |-> "Hello", subtitle |-> "sub1", img_url |-> "http://x.com/1.png", body |-> "body1"],
     [title |-> "World", subtitle |-> "sub2", img_url |-> "http://x.com/2.png", body |-> "body2"],
     [title |-> "", subtitle |-> "sub1", img_url |-> "http://x.com/1.png", body |-> "body1"],
     [title |-> "World", subtitle |-> "sub1", img_url |-> "not a url", body |-> "body1"]}

RegisterForm_validate(f) ==
    DataRequired(f.name) /\ DataRequired(f.email) /\ Email(f.email) /\ DataRequired(f.password)
LoginForm_validate(f) ==
    DataRequired(f.email) /\ Email(f.email) /\ DataRequired(f.password)
CommentForm_validate(f) ==
    DataRequired(f.comment)
CreatePostForm_validate(f) ==
    DataRequired(f.title) /\ DataRequired(f.subtitle)
      /\ DataRequired(f.img_url) /\ URL(f.img_url) /\ DataRequired(f.body)

\* a request: GET carries no form data, POST carries a filled form
Requests(forms, empty) ==
    {[method |-> "GET", form |-> empty]} \cup {[method |-> "POST", form |-> f] : f \in forms}
NoRegisterForm == [name |-> "", email |-> "", password |-> ""]
NoLoginForm == [email |-> "", password |-> ""]
NoCommentForm == [comment |-> ""]
NoPostForm == [title |-> "", subtitle |-> "", img_url |-> "", body |-> ""]
\* validate_on_submit: the request is a submission (POST) and the form validates
validate_on_submit(m, ok) == m = "POST" /\ ok

\* ------------------------------------------------------------ the database
Max(S) == CHOOSE x \in S : \A y \in S : y <= x
\* SQLite INTEGER PRIMARY KEY without AUTOINCREMENT: one more than the largest id
next_id(rows) == IF rows = {} THEN 1 ELSE Max({r.id : r \in rows}) + 1
\* Query.get(id): the row with that primary key, or None (the empty set)
get(rows, id) == {r \in rows : r.id = id}
None == {}
the(row) == CHOOSE r \in row : TRUE
\* register without its existence check
user_by_email_unchecked(e) == {}
\* User.query.filter_by(email=...).first()
user_by_email(e) == {u \in users : u.email = e}

\* unique=True on users.email / blog_posts.title: the store refuses the row
\* columns declared without unique=True
email_not_unique(rows, e) == TRUE
title_not_unique(rows, t) == TRUE
email_unique(rows, e) == \A u \in rows : u.email # e
title_unique(rows, t) == \A p \in rows : p.title # t

\* werkzeug.security: an ideal salted one-way function
pbkdf2(pw, salt) == <<"pbkdf2:sha256", salt, pw>>
generate_password_hash(pw, salt) == [salt |-> salt, digest |-> pbkdf2(pw, salt)]
\* a check that accepts every password
check_password_hash_any(h, pw) == TRUE
check_password_hash(h, pw) == h.digest = pbkdf2(pw, h.salt)

\* ---------------------------------------------------------------- sessions
current_user(c) == session[c]
\* a comment handler that does not look at is_authenticated
is_authenticated_any(p) == TRUE
is_authenticated(p) == p # Anonymous
login_user(c, id) == [session EXCEPT ![c] = id]
logout_user(c) == [session EXCEPT ![c] = Anonymous]

\* --------------------------------------------------------------- responses
\* the response of a request: status, redirect target or exception, flashed
\* message (the HTML of a rendered page is not modelled)
Render == [status |-> 200, body |-> "html", flash |-> ""]
Redirect(to, msg) == [status |-> 302, body |-> to, flash |-> msg]
Abort == [status |-> 403, body |-> "Forbidden", flash |-> ""]
Raise(exc) == [status |-> 500, body |-> exc, flash |-> ""]

\* a gate that lets every logged-in user through
admin_only_any_user(p) ==
    IF p = Anonymous THEN "AttributeError" ELSE "ok"

\* admin_only: AnonymousUserMixin has no attribute id, so the comparison raises
admin_only(p) ==
    IF p = Anonymous THEN "AttributeError"
    ELSE IF p # ADMIN_ID THEN "abort"
    ELSE "ok"

Idle == [c \in Clients |-> {}]

Init ==
    /\ users = {}
    /\ posts = {}
    /\ comments = {}
    /\ session = [c \in Clients |-> Anonymous]
    /\ inflight = Idle
    /\ resp = Render

\* ---------------------------------------------------------------- handlers
home(c) ==
    /\ resp' = Render
    /\ UNCHANGED <<users, posts, comments, session, inflight>>

about(c) ==
    /\ resp' = Render
    /\ UNCHANGED <<users, posts, comments, session, inflight>>

contact(c) ==
    /\ resp' = Render
    /\ UNCHANGED <<users, posts, comments, session, inflight>>

new_user(f, salt) ==
    [id |-> next_id(users), name |-> f.name, email |-> f.email,
     password |-> generate_password_hash(f.password, salt)]

\* lines 114-118: INSERT and COMMIT (the unique index on users.email decides),
\* then login_user and the redirect
add_user(c, f, salt) ==
    IF ~email_unique(users, f.email)
    THEN /\ resp' = Raise("IntegrityError")
         /\ UNCHANGED <<users, session>>
    ELSE /\ next_id(users) <= MaxUsers
         /\ users' = users \cup {new_user(f, salt)}
         /\ session' = login_user(c, next_id(users))
         /\ resp' = Redirect("home", "")

register(c, m, f, salt) ==
    /\ UNCHANGED <<posts, comments, inflight>>
    /\ IF validate_on_submit(m, RegisterForm_validate(f))
       THEN IF user_by_email(f.email) # None
            THEN /\ resp' = Redirect("login", "exists")
                 /\ UNCHANGED <<users, session>>
            ELSE add_user(c, f, salt)
       ELSE /\ resp' = Render
            /\ UNCHANGED <<users, session>>

login(c, m, f) ==
    /\ UNCHANGED <<users, posts, comments, inflight>>
    /\ IF validate_on_submit(m, LoginForm_validate(f))
       THEN LET user == user_by_email(f.email) IN
            IF user # None
            THEN IF check_password_hash(the(user).password, f.password)
                 THEN /\ session' = login_user(c, the(user).id)
                      /\ resp' = Redirect("home", "")
                 ELSE /\ resp' = Redirect("login", "incorrect")
                      /\ UNCHANGED session
            ELSE /\ resp' = Redirect("login", "unknown")
                 /\ UNCHANGED session
       ELSE /\ resp' = Render
            /\ UNCHANGED session

logout(c) ==
    /\ session' = logout_user(c)
    /\ resp' = Redirect("home", "")
    /\ UNCHANGED <<users, posts, comments, inflight>>

\* Comment(text=..., poster=current_user, blog_post=clicked_post)
new_comment(f, poster, post) ==
    [id |-> next_id(comments), text |-> f.comment, poster_id |-> poster,
     blog_post_id |-> IF post = None THEN NULL ELSE the(post).id]

\* post.html is rendered with post=None when the id matches no row; the
\* template is not part of the sources, so it may render or raise
render_post(post) ==
    IF post = None THEN {Render, Raise("UndefinedError")}
    ELSE {Render}

read_post(c, m, post_id, f) ==
    LET clicked_post == get(posts, post_id) IN
    /\ UNCHANGED <<users, posts, session, inflight>>
    /\ IF validate_on_submit(m, CommentForm_validate(f))
       THEN IF is_authenticated(current_user(c))
            THEN /\ next_id(comments) <= MaxComments
                 /\ comments' = comments \cup {new_comment(f, current_user(c), clicked_post)}
                 /\ resp' \in render_post(clicked_post)
            ELSE /\ resp' = Redirect("login", "must log in")
                 /\ UNCHANGED comments
       ELSE /\ resp' \in render_post(clicked_post)
            /\ UNCHANGED comments

\* BlogPost(title=..., date=date.today().strftime(...), author=current_user)
new_post(f, today, author) ==
    [id |-> next_id(posts), title |-> f.title, subtitle |-> f.subtitle, date |-> today,
     body |-> f.body, img_url |-> f.img_url, author_id |-> author]

create_post(c, m, f, today) ==
    /\ UNCHANGED <<users, comments, session, inflight>>
    /\ IF admin_only(current_user(c)) = "AttributeError"
       THEN /\ resp' = Raise("AttributeError")
            /\ UNCHANGED posts
       ELSE IF admin_only(current_user(c)) = "abort"
       THEN /\ resp' = Abort
            /\ UNCHANGED posts
       ELSE IF validate_on_submit(m, CreatePostForm_validate(f))
       THEN IF ~title_unique(posts, f.title)
            THEN /\ resp' = Raise("IntegrityError")
                 /\ UNCHANGED posts
            ELSE /\ next_id(posts) <= MaxPosts
                 /\ posts' = posts \cup {new_post(f, today, current_user(c))}
                 /\ resp' = Redirect("home", "")
       ELSE /\ resp' = Render
            /\ UNCHANGED posts

\* an edit that also stamps the date again
edited_restamped(post, f) ==
    [post EXCEPT !.title = f.title, !.subtitle = f.subtitle, !.body = f.body,
                 !.img_url = f.img_url, !.date = "edited"]

\* lines 192-195: the four assignments of edit_post
edited(post, f) ==
    [post EXCEPT !.title = f.title, !.subtitle = f.subtitle,
                 !.body = f.body, !.img_url = f.img_url]

edit_post(c, m, post_id, f) ==
    LET post_to_edit == get(posts, post_id) IN
    /\ UNCHANGED <<users, comments, session, inflight>>
    /\ IF admin_only(current_user(c)) = "AttributeError"
       THEN /\ resp' = Raise("AttributeError")
            /\ UNCHANGED posts
       ELSE IF admin_only(current_user(c)) = "abort"
       THEN /\ resp' = Abort
            /\ UNCHANGED posts
       ELSE IF post_to_edit = None
       THEN /\ resp' = Raise("AttributeError")
            /\ UNCHANGED posts
       ELSE IF validate_on_submit(m, CreatePostForm_validate(f))
       THEN IF ~title_unique(posts \ post_to_edit, f.title)
            THEN /\ resp' = Raise("IntegrityError")
                 /\ UNCHANGED posts
            ELSE /\ posts' = (posts \ post_to_edit) \cup {edited(the(post_to_edit), f)}
                 /\ resp' = Redirect("read_post", "")
       ELSE /\ resp' = Render
            /\ UNCHANGED posts

\* relationship("Comment", back_populates="blog_post") carries no delete
\* cascade: on the parent's delete the ORM sets the children's foreign key to
\* NULL and keeps the rows
on_delete_post(rows, post_id) ==
    {IF k.blog_post_id = post_id THEN [k EXCEPT !.blog_post_id = NULL] ELSE k : k \in rows}

delete_post(c, post_id) ==
    LET post_to_delete == get(posts, post_id) IN
    /\ UNCHANGED <<users, session, inflight>>
    /\ IF admin_only(current_user(c)) = "AttributeError"
       THEN /\ resp' = Raise("AttributeError")
            /\ UNCHANGED <<posts, comments>>
       ELSE IF admin_only(current_user(c)) = "abort"
       THEN /\ resp' = Abort
            /\ UNCHANGED <<posts, comments>>
       ELSE IF post_to_delete = None
       THEN /\ resp' = Raise("UnmappedInstanceError")
            /\ UNCHANGED <<posts, comments>>
       ELSE /\ posts' = posts \ post_to_delete
            /\ comments' = on_delete_post(comments, post_id)
            /\ resp' = Redirect("home", "")

PostIds == 1 .. MaxPosts

Next ==
    \/ \E c \in Browsers : home(c)
    \/ \E c \in Browsers : about(c)
    \/ \E c \in Browsers : contact(c)
    \/ \E c \in Browsers, r \in Requests(RegisterForm, NoRegisterForm), s \in Salts :
          register(c, r.method, r.form, s)
    \/ \E c \in Browsers, r \in Requests(LoginForm, NoLoginForm) : login(c, r.method, r.form)
    \/ \E c \in Browsers : logout(c)
    \/ \E c \in Browsers, r \in Requests(CommentForm, NoCommentForm), id \in PostIds :
          read_post(c, r.method, id, r.form)
    \/ \E c \in Browsers, r \in Requests(CreatePostForm, NoPostForm), d \in Days :
          create_post(c, r.method, r.form, d)
    \/ \E c \in Browsers, r \in Requests(CreatePostForm, NoPostForm), id \in PostIds :
          edit_post(c, r.method, id, r.form)
    \/ \E c \in Browsers, id \in PostIds : delete_post(c, id)

\* requests served one after the other, each handler in one step
Spec == Init /\ [][Next]_vars

\* ------------------------------------------------- concurrent registration
\* register between two commits of other requests: lines 102-112 read the
\* table and build the row, lines 114-118 write it
register_begin(c, m, f, salt) ==
    /\ inflight[c] = {}
    /\ UNCHANGED <<users, posts, comments, session>>
    /\ IF validate_on_submit(m, RegisterForm_validate(f))
       THEN IF user_by_email(f.email) # None
            THEN /\ resp' = Redirect("login", "exists")
                 /\ UNCHANGED inflight
            ELSE /\ inflight' = [inflight EXCEPT ![c] = {[form |-> f, salt |-> salt]}]
                 /\ UNCHANGED resp
       ELSE /\ resp' = Render
            /\ UNCHANGED inflight

register_commit(c) ==
    /\ inflight[c] # {}
    /\ add_user(c, the(inflight[c]).form, the(inflight[c]).salt)
    /\ inflight' = [inflight EXCEPT ![c] = {}]
    /\ UNCHANGED <<posts, comments>>

RaceNext ==
    \/ \E c \in Clients, r \in Requests(RegisterForm, NoRegisterForm), s \in Salts :
          register_begin(c, r.method, r.form, s)
    \/ \E c \in Clients : register_commit(c)
    \/ \E c \in Clients, r \in Requests(LoginForm, NoLoginForm) :
          inflight[c] = {} /\ login(c, r.method, r.form)
    \/ \E c \in Clients : inflight[c] = {} /\ logout(c)

\* requests of two browsers served in parallel, register in two steps
RaceSpec == Init /\ [][RaceNext]_vars

\* ------------------------------------------------------------------ claims
PostManagement(c) ==
    \/ \E r \in Requests(CreatePostForm, NoPostForm), d \in Days :
          create_post(c, r.method, r.form, d)
    \/ \E r \in Requests(CreatePostForm, NoPostForm), id \in PostIds :
          edit_post(c, r.method, id, r.form)
    \/ \E id \in PostIds : delete_post(c, id)

\* C1: every post-management request of a principal that is not the admin
\* (a logged-in user with another id, or Anonymous) is answered 403 and
\* leaves users, posts, comments and the session as they were.
C1_NonAdminForbidden ==
    [][\A c \in Browsers :
          (current_user(c) # ADMIN_ID /\ PostManagement(c))
            => (resp'.status = 403 /\ UNCHANGED <<users, posts, comments, session>>)]_vars

\* C2: after the admin deletes an existing post, the post is gone and none
\* of the comment rows that belonged to it is left in the store.
C2_DeleteCascades ==
    [][\A c \in Browsers, id \in PostIds :
          (current_user(c) = ADMIN_ID /\ get(posts, id) # None /\ delete_post(c, id))
            => /\ get(posts', id) = None
               /\ \A k \in comments :
                     k.blog_post_id = id => \A k2 \in comments' : k2.id # k.id]_vars

\* C3: a submitted, valid registration whose email equals the email of an
\* existing user is answered with the "already exists" redirect to login;
\* no user row is created or changed and the session keeps its principal.
C3_DuplicateEmailRejected ==
    [][\A c \in Browsers, f \in RegisterForm, s \in Salts :
          (/\ register(c, "POST", f, s)
           /\ RegisterForm_validate(f)
           /\ \E u \in users : u.email = f.email)
            => (/\ resp' = Redirect("login", "exists")
                /\ UNCHANGED <<users, posts, comments, session>>)]_vars

C3_Witness ==
    /\ resp = Redirect("login", "exists")
    /\ users # {}
    /\ session["c1"] = Anonymous

\* C4: a valid comment submitted by Anonymous is answered with the redirect
\* to login and adds no comment; every comment row a step adds has as poster
\* the authenticated principal of the session that sent it.
C4_CommentNeedsLogin ==
    [][/\ \A c \in Browsers, id \in PostIds, f \in CommentForm :
            (/\ read_post(c, "POST", id, f)
             /\ CommentForm_validate(f)
             /\ current_user(c) = Anonymous)
              => (resp' = Redirect("login", "must log in") /\ comments' = comments)
       /\ \A k \in comments' :
            (\A k0 \in comments : k0.id # k.id)
              => \E c \in Browsers : session[c] # Anonymous /\ k.poster_id = session[c]]_vars

C4_Witness ==
    /\ resp = Redirect("login", "must log in")
    /\ \E k \in comments : \E u \in users : u.id = k.poster_id

\* C5: a valid login with an email of no user is answered "unknown email",
\* one with a known email and a password that does not verify against the
\* stored hash is answered "incorrect password"; both leave the session and
\* every row as they were.  Login binds the session to a user only when that
\* user's stored hash is the hash of the submitted password.
C5_LoginChecksCredentials ==
    [][\A c \in Browsers, f \in LoginForm :
          (login(c, "POST", f) /\ LoginForm_validate(f))
            => LET match == {u \in users : u.email = f.email}
                   verified == {u \in match : u.password.digest = pbkdf2(f.password, u.password.salt)}
               IN /\ match = {}
                     => (/\ resp' = Redirect("login", "unknown")
                         /\ UNCHANGED <<users, posts, comments, session>>)
                  /\ (match # {} /\ verified = {})
                     => (/\ resp' = Redirect("login", "incorrect")
                         /\ UNCHANGED <<users, posts, comments, session>>)
                  /\ (session' # session \/ resp' = Redirect("home", ""))
                     => \E u \in verified : session' = [session EXCEPT ![c] = u.id]]_vars

C5_Witness ==
    /\ resp = Redirect("login", "incorrect")
    /\ Cardinality(users) = 2
    /\ session["c1"] # Anonymous

\* C6: a successful edit of post id by the admin replaces title, subtitle,
\* body and image URL of that post by the submitted ones and keeps its id,
\* date and author; the other posts, the comments and the users stay as
\* they were.
C6_EditFrame ==
    [][\A c \in Browsers, id \in PostIds, f \in CreatePostForm :
          (/\ edit_post(c, "POST", id, f)
           /\ current_user(c) = ADMIN_ID
           /\ resp' = Redirect("read_post", ""))
            => \E p \in posts :
                 /\ p.id = id
                 /\ posts' = (posts \ {p}) \cup
                      {[id |-> p.id, date |-> p.date, author_id |-> p.author_id,
                        title |-> f.title, subtitle |-> f.subtitle,
                        body |-> f.body, img_url |-> f.img_url]}
                 /\ UNCHANGED <<users, comments, session>>]_vars

C6_Witness ==
    /\ resp = Redirect("read_post", "")
    /\ Cardinality(posts) = 2
    /\ comments # {}
    /\ \E p \in posts : p.title = "World" /\ p.date = "April 05, 2025"

\* C7: a valid comment of a logged-in user on a post id that matches no post
\* is answered NotFound (404) and adds no comment row, and every comment in
\* the store references a post that exists.
C7_CommentOnMissingPost ==
    [][/\ \A c \in Browsers, id \in PostIds, f \in CommentForm :
            (/\ read_post(c, "POST", id, f)
             /\ CommentForm_validate(f)
             /\ current_user(c) # Anonymous
             /\ get(posts, id) = None)
              => (resp'.status = 404 /\ comments' = comments)
       /\ \A k \in comments' : get(posts', k.blog_post_id) # None]_vars

TitlesUnique == \A p, q \in posts : p.title = q.title => p = q

EmailsUnique == \A u, v \in users : u.email = v.email => u = v

\* C9: when registrations with the same unused email interleave between the
\* existence check and the insert, every state holds at most one user with
\* that email: the insert of the later request is refused by the unique
\* index, that request gets no session, and a registration binds a session
\* only to the row it has just inserted.
C9_RaceKeepsEmailsUnique ==
    [][/\ EmailsUnique'
       /\ \A c \in Clients :
            register_commit(c)
              => /\ (\E u \in users : u.email = the(inflight[c]).form.email)
                    => (/\ resp' = Raise("IntegrityError")
                        /\ UNCHANGED <<users, session>>)
                 /\ session' # session
                    => \E u \in users' \ users : session' = [session EXCEPT ![c] = u.id]]_vars

C9_Witness ==
    /\ resp = Raise("IntegrityError")
    /\ \E u \in users : u.email = "a@x.com" /\ session["c1"] = u.id
    /\ \A c \in Clients : inflight[c] = {}
    /\ session["c2"] = Anonymous

\* C10: in every reachable state every post's author is the user with id 1.
C10_AuthorIsAdmin ==
    \A p \in posts : p.author_id = ADMIN_ID /\ \E u \in users : u.id = p.author_id

C10_Witness ==
    /\ posts # {}
    /\ resp = Abort
    /\ session["c1"] \notin {Anonymous, ADMIN_ID}

====

